---- MODULE Spec2Model ----
(***************************************************************************)
(* Model of src/main.py: the FastAPI service with the single endpoint      *)
(* POST /api/generate-image (generate_single_image).                       *)
(*                                                                         *)
(* The handler is an `async def` that calls the synchronous                *)
(* fal_client.run without awaiting anything, so it occupies the event loop *)
(* thread from dispatch to return.  `cur` is the request the loop thread   *)
(* is executing; `pending` are the requests that arrived and wait for the  *)
(* loop.  Python and JSON values are encoded as tagged records of one      *)
(* shape so that values of different Python types can be compared.         *)
(***************************************************************************)
EXTENDS Integers, Sequences, FiniteSets, TLC

VARIABLES FAL_KEY, pending, cur

vars == <<FAL_KEY, pending, cur>>

(***************************** bounds **************************************)
\* requests that have arrived and wait for the event loop
MaxPending == 1
\* longest `images` list the provider returns
MaxImages == 2

(********************** scalar Python / JSON values ************************)
Absent == [t |-> "absent", s |-> "", n |-> 0]
PyNone == [t |-> "none", s |-> "", n |-> 0]
PyStr(x) == [t |-> "str", s |-> x, n |-> 0]
PyInt(k) == [t |-> "int", s |-> "", n |-> k]

(**************************** request bodies *******************************)
ObjKeys == {"width", "height", "depth"}
NoObj == [k \in ObjKeys |-> Absent]
JAbsent == [t |-> "absent", s |-> "", n |-> 0, o |-> NoObj]
JStr(x) == [t |-> "str", s |-> x, n |-> 0, o |-> NoObj]
JNum(k) == [t |-> "int", s |-> "", n |-> k, o |-> NoObj]
JObj(f) == [t |-> "obj", s |-> "", n |-> 0, o |-> f]

Prompts == {"a red fox", "a cat"}
SizeNames == {"landscape"}
Widths == {0, 512}
Heights == {-1, 768}

SizeObjects ==
    {[width |-> PyInt(w), height |-> PyInt(h), depth |-> Absent] :
        w \in Widths, h \in Heights}
    \cup {[width |-> PyInt(512), height |-> PyInt(768), depth |-> PyInt(3)]}
    \cup {[width |-> PyInt(512), height |-> Absent, depth |-> Absent]}

JsonSizes ==
    {JAbsent, JNum(5)} \cup {JStr(x) : x \in SizeNames}
                       \cup {JObj(f) : f \in SizeObjects}

Bodies ==
    {[prompt |-> PyStr(p), image_size |-> z] : p \in Prompts, z \in JsonSizes}
    \cup {[prompt |-> Absent, image_size |-> JAbsent]}

NoBody == [prompt |-> Absent, image_size |-> JAbsent]

(*********************** GenerateRequest (pydantic) ************************)
\* CustomImageSize: both fields required, both int, no further constraint
ValidCustomImageSize(o) == o["width"].t = "int" /\ o["height"].t = "int"

\* GenerateRequest: prompt required str; image_size Union[str, CustomImageSize]
ValidBody(body) ==
    /\ body.prompt.t = "str"
    /\ \/ body.image_size.t \in {"absent", "str"}
       \/ body.image_size.t = "obj" /\ ValidCustomImageSize(body.image_size.o)

StrSize(x) == [t |-> "str", s |-> x, width |-> 0, height |-> 0]
CustomImageSize(w, h) ==
    [t |-> "CustomImageSize", s |-> "", width |-> w, height |-> h]

DefaultImageSize == StrSize("square")

\* the parsed model: default applied, unknown keys of the object dropped
ParseRequest(body) ==
    [prompt |-> body.prompt.s,
     image_size |->
        CASE body.image_size.t = "absent" -> DefaultImageSize
          [] body.image_size.t = "str" -> StrSize(body.image_size.s)
          [] OTHER -> CustomImageSize(body.image_size.o["width"].n,
                                      body.image_size.o["height"].n)]

(***************************** the payload *********************************)
ArgStr(x) == [t |-> "str", s |-> x, d |-> {}]
ArgDict(d) == [t |-> "dict", s |-> "", d |-> d]

\* BaseModel.model_dump() of a CustomImageSize: a dict as a set of items
model_dump(size) == {<<"width", size.width>>, <<"height", size.height>>}

\* mutant: a width/height object is not forwarded, the default name is
ImageSizeArg_Default(size) ==
    IF size.t = "str" THEN ArgStr(size.s) ELSE ArgStr("square")

ImageSizeArg(size) ==
    IF size.t = "str" THEN ArgStr(size.s) ELSE ArgDict(model_dump(size))

Payload(request) ==
    [prompt |-> request.prompt, image_size |-> ImageSizeArg(request.image_size)]

NoArgs == [prompt |-> "", image_size |-> ArgStr("")]

(************************** provider results *******************************)
Urls == {"https://cdn.example/fox.png", "https://cdn.example/cat.png"}

DictEntry(u) == [t |-> "dict", s |-> <<>>, url |-> u]
StrEntry(chars) == [t |-> "str", s |-> chars, url |-> Absent]
NoneEntry == [t |-> "none", s |-> <<>>, url |-> Absent]

FirstEntries ==
    {DictEntry(PyStr(u)) : u \in Urls}
    \cup {DictEntry(PyNone), DictEntry(PyInt(7)), DictEntry(Absent),
          StrEntry(<<"u", "r", "l">>), StrEntry(<<"x">>), NoneEntry}
LaterEntries == {DictEntry(PyStr(u)) : u \in Urls}

RECURSIVE Tails(_)
Tails(k) ==
    IF k = 0 THEN {<<>>}
    ELSE Tails(k - 1) \cup
         {Append(tl, e) : tl \in {x \in Tails(k - 1) : Len(x) = k - 1},
                          e \in LaterEntries}

ImageLists ==
    {<<>>} \cup {<<e>> \o tl : e \in FirstEntries, tl \in Tails(MaxImages - 1)}

NoImages == [t |-> "none", items |-> <<>>]
ListOf(items) == [t |-> "list", items |-> items]

NotADict == [t |-> "none", has_images |-> FALSE, images |-> NoImages]
DictWithout == [t |-> "dict", has_images |-> FALSE, images |-> NoImages]
DictWith(images) == [t |-> "dict", has_images |-> TRUE, images |-> images]

Results ==
    {NotADict, DictWithout, DictWith(NoImages)}
    \cup {DictWith(ListOf(items)) : items \in ImageLists}

ErrMsgs == {"Request timed out", "503 Service Unavailable"}

NoOutcome == [kind |-> "none", value |-> NotADict, msg |-> ""]
Returned(result) == [kind |-> "return", value |-> result, msg |-> ""]
Raised(msg) == [kind |-> "raise", value |-> NotADict, msg |-> msg]

(*********************** processing of the result *************************)
\* f"{result}"
Repr(result) == ToString(result)

\* `"url" in entry`: key test on a dict, substring test on a str
Contains(chars, sub) ==
    \E i \in 1..(Len(chars) - Len(sub) + 1) :
        SubSeq(chars, i, i + Len(sub) - 1) = sub

\* mutant: every mapping counts as having a url
UrlIn_AnyDict(entry) ==
    entry.t = "dict" \/ Contains(entry.s, <<"u", "r", "l">>)

UrlIn(entry) ==
    IF entry.t = "dict" THEN entry.url.t # "absent"
    ELSE Contains(entry.s, <<"u", "r", "l">>)

\* mutant: the last image is taken instead of the first
FirstImage_Last(items) == items[Len(items)]

FirstImage(items) == items[1]

\* GenerateResponse.url : Optional[str]
ValidUrlField(u) == u.t \in {"str", "none"}

Ok(u) == [exc |-> "", msg |-> <<>>, url |-> u]
Exc(kind, msg) == [exc |-> kind, msg |-> msg, url |-> Absent]

\* the body of the try block after fal_client.run has returned
ProcessResult(result) ==
    IF result.t # "dict" \/ ~result.has_images
    THEN Exc("ValueError",
             <<"Unexpected response format from Fal AI API: ", Repr(result)>>)
    ELSE LET images == result.images IN
      IF images.t # "list" \/ Len(images.items) = 0
      THEN Exc("ValueError",
               <<"No image URL found in Fal AI response: ", Repr(result)>>)
      ELSE LET first == FirstImage(images.items) IN
        IF first.t = "none"
        THEN Exc("TypeError", <<"argument of type 'NoneType' is not iterable">>)
        ELSE IF ~UrlIn(first)
        THEN Exc("ValueError",
                 <<"No image URL found in Fal AI response: ", Repr(result)>>)
        ELSE IF first.t = "str"
        THEN Exc("TypeError", <<"string indices must be integers">>)
        ELSE IF ~ValidUrlField(first.url)
        THEN Exc("ValidationError",
                 <<"1 validation error for GenerateResponse">>)
        ELSE Ok(first.url)

(****************************** responses **********************************)
NoResponse ==
    [code |-> 0, id |-> "", status |-> "", url |-> Absent,
     error_message |-> Absent, detail |-> <<>>]

HTTPException(status_code, detail) ==
    [code |-> status_code, id |-> "", status |-> "", url |-> Absent,
     error_message |-> Absent, detail |-> detail]

GenerateResponse(id, status, url) ==
    [code |-> 200, id |-> id, status |-> status, url |-> url,
     error_message |-> PyNone, detail |-> <<>>]

NotConfiguredDetail == <<"Image generation service is not configured.">>
ErrorPrefix == "An error occurred with Fal AI: "

\* mutant: the except clause answers 503
ErrorResponse_503(msg) == HTTPException(503, <<ErrorPrefix>> \o msg)

\* the except clause: f"An error occurred with Fal AI: {e}", status 500
ErrorResponse(msg) == HTTPException(500, <<ErrorPrefix>> \o msg)

NotConfiguredResponse == HTTPException(503, NotConfiguredDetail)

\* request validation by the framework, before the handler is entered
ValidationResponse == HTTPException(422, <<"validation error">>)

\* mutant: `if FAL_KEY is None`
KeyMissing_NoneOnly(key) == key.t = "none"

\* `if not FAL_KEY`
KeyMissing(key) == key.t = "none" \/ (key.t = "str" /\ key.s = "")

UUIDs == {"uuid-a", "uuid-b"}

(******************************* state *************************************)
Idle ==
    [pc |-> "idle", body |-> NoBody, attempt_id |-> "", args |-> NoArgs,
     calls |-> 0, outcome |-> NoOutcome, response |-> NoResponse]

Init ==
    /\ FAL_KEY \in {PyNone, PyStr(""), PyStr("fal-secret")}
    /\ pending = <<>>
    /\ cur = Idle

\* a client posts a body; the request waits for the event loop
Receive(body) ==
    /\ Len(pending) < MaxPending
    /\ pending' = Append(pending, body)
    /\ UNCHANGED <<FAL_KEY, cur>>

\* the loop takes a request whose body does not validate: 422, no handler
Reject ==
    /\ cur.pc = "idle"
    /\ pending # <<>>
    /\ ~ValidBody(Head(pending))
    /\ cur' = [Idle EXCEPT !.pc = "done", !.body = Head(pending),
                           !.response = ValidationResponse]
    /\ pending' = Tail(pending)
    /\ UNCHANGED FAL_KEY

\* the handler is entered and the credential is missing
NotConfigured ==
    /\ cur.pc = "idle"
    /\ pending # <<>>
    /\ ValidBody(Head(pending))
    /\ KeyMissing(FAL_KEY)
    /\ cur' = [Idle EXCEPT !.pc = "done", !.body = Head(pending),
                           !.response = NotConfiguredResponse]
    /\ pending' = Tail(pending)
    /\ UNCHANGED FAL_KEY

\* the handler is entered, draws an id, builds the payload and blocks in
\* fal_client.run
CallProvider(u) ==
    /\ cur.pc = "idle"
    /\ pending # <<>>
    /\ ValidBody(Head(pending))
    /\ ~KeyMissing(FAL_KEY)
    /\ cur' = [Idle EXCEPT !.pc = "calling", !.body = Head(pending),
                           !.attempt_id = u,
                           !.args = Payload(ParseRequest(Head(pending))),
                           !.calls = 1]
    /\ pending' = Tail(pending)
    /\ UNCHANGED FAL_KEY

\* fal_client.run returns `result`; the handler runs to its end
ProviderReturn(result) ==
    /\ cur.pc = "calling"
    /\ LET r == ProcessResult(result) IN
       cur' = [cur EXCEPT !.pc = "done", !.outcome = Returned(result),
                 !.response =
                    IF r.exc = ""
                    THEN GenerateResponse(cur.attempt_id, "success", r.url)
                    ELSE ErrorResponse(r.msg)]
    /\ UNCHANGED <<FAL_KEY, pending>>

\* mutant: a raising call is issued once more before the except clause answers
ProviderRaise_Retry(msg) ==
    /\ cur.pc = "calling"
    /\ cur' = IF cur.calls < 2
              THEN [cur EXCEPT !.calls = @ + 1]
              ELSE [cur EXCEPT !.pc = "done", !.outcome = Raised(msg),
                               !.response = ErrorResponse(<<msg>>)]
    /\ UNCHANGED <<FAL_KEY, pending>>

\* fal_client.run raises; the except clause answers
ProviderRaise(msg) ==
    /\ cur.pc = "calling"
    /\ cur' = [cur EXCEPT !.pc = "done", !.outcome = Raised(msg),
                          !.response = ErrorResponse(<<msg>>)]
    /\ UNCHANGED <<FAL_KEY, pending>>

\* the framework writes the response out; the request is forgotten
SendResponse ==
    /\ cur.pc = "done"
    /\ cur' = Idle
    /\ UNCHANGED <<FAL_KEY, pending>>

Next ==
    \/ \E body \in Bodies : Receive(body)
    \/ Reject
    \/ NotConfigured
    \/ \E u \in UUIDs : CallProvider(u)
    \/ \E result \in Results : ProviderReturn(result)
    \/ \E msg \in ErrMsgs : ProviderRaise(msg)
    \/ SendResponse

Spec == Init /\ [][Next]_vars

TypeOK ==
    /\ cur.pc \in {"idle", "calling", "done"}
    /\ Len(pending) <= MaxPending

(***************************************************************************)
(* Properties                                                              *)
(***************************************************************************)
Configured == FAL_KEY.t = "str" /\ FAL_KEY.s # ""
HandlerEntered == cur.pc \in {"calling", "done"} /\ ValidBody(cur.body)
ReturnedResult == cur.pc = "done" /\ cur.outcome.kind = "return"
Result == cur.outcome.value
HasImageList ==
    /\ Result.t = "dict" /\ Result.has_images
    /\ Result.images.t = "list" /\ Len(Result.images.items) > 0
First == Result.images.items[1]

\* C1: with FAL_KEY unset or empty, no request ever reaches the provider
\* and every request that carries a prompt and a well-formed image_size is
\* answered 503 "not configured".
C1_MissingCredential ==
    (FAL_KEY = PyNone \/ FAL_KEY = PyStr("")) =>
        /\ cur.calls = 0
        /\ cur.pc # "calling"
        /\ cur.outcome.kind = "none"
        /\ (cur.pc = "done" /\ ValidBody(cur.body)) =>
              /\ cur.response.code = 503
              /\ cur.response.detail = NotConfiguredDetail

C1_Witness ==
    /\ FAL_KEY = PyStr("")
    /\ cur.pc = "done"
    /\ cur.body.image_size.t = "obj"
    /\ cur.response.code = 503

\* C2 as stated: whenever the provider returns a mapping whose images is a
\* non-empty list whose first entry has a url, the answer is a success
\* carrying exactly that url.
C2_Original ==
    (ReturnedResult /\ HasImageList /\ First.t = "dict"
        /\ First.url.t # "absent") =>
        /\ cur.response.code = 200
        /\ cur.response.status = "success"
        /\ cur.response.url = First.url

\* C2 amended: whenever the provider returns a mapping whose images is a
\* non-empty list whose first entry is a mapping with a url that is a
\* string or null, the answer is a success carrying exactly that url.
C2_FirstUrlReturned ==
    (ReturnedResult /\ HasImageList /\ First.t = "dict"
        /\ First.url.t \in {"str", "none"}) =>
        /\ cur.response.code = 200
        /\ cur.response.status = "success"
        /\ cur.response.url = First.url

C2_Witness ==
    /\ ReturnedResult /\ HasImageList
    /\ Len(Result.images.items) = 2
    /\ First.t = "dict" /\ First.url.t = "str"
    /\ Result.images.items[2].url # First.url
    /\ cur.response.code = 200
    /\ cur.response.url = First.url

\* C3: a provider result that is not a mapping, lacks images, whose images
\* is not a non-empty list, or whose first entry lacks url, is answered 500
\* with the generic error detail, never with a success; where the handler's
\* own shape checks fire, the detail embeds the offending result.
Malformed ==
    \/ ~HasImageList
    \/ First.t # "dict"
    \/ First.url.t = "absent"

ShapeCheckFires ==
    \/ ~HasImageList
    \/ First.t = "dict" /\ First.url.t = "absent"

C4_GenericFailure ==
    /\ (cur.pc = "done" /\ cur.outcome.kind = "raise") =>
          /\ cur.response.code = 500
          /\ cur.response.detail = <<ErrorPrefix, cur.outcome.msg>>
    /\ (cur.pc = "done" /\ cur.calls = 1) => cur.response.code \in {200, 500}
    /\ (cur.pc = "done" /\ cur.calls = 1 /\ cur.response.code # 200) =>
          cur.response.detail[1] = ErrorPrefix
    /\ cur.response.code = 503 =>
          /\ ~Configured
          /\ cur.calls = 0
          /\ cur.outcome.kind = "none"

C4_Witness ==
    /\ cur.pc = "done"
    /\ cur.outcome = Raised("Request timed out")
    /\ cur.response.code = 500
    /\ cur.response.detail = <<ErrorPrefix, "Request timed out">>

\* C5: the arguments of the provider call are the request's prompt and the
\* request's image_size: a string as that string, a width/height object as
\* the map of exactly width and height, an omitted one as "square".
C5_Arguments ==
    cur.calls = 1 =>
        /\ cur.args.prompt = cur.body.prompt.s
        /\ cur.body.image_size.t = "absent" =>
              cur.args.image_size = ArgStr("square")
        /\ cur.body.image_size.t = "str" =>
              cur.args.image_size = ArgStr(cur.body.image_size.s)
        /\ cur.body.image_size.t = "obj" =>
              /\ cur.args.image_size.t = "dict"
              /\ cur.args.image_size.d =
                    {<<"width", cur.body.image_size.o["width"].n>>,
                     <<"height", cur.body.image_size.o["height"].n>>}

C5_Witness ==
    /\ cur.pc = "calling"
    /\ cur.body.image_size.t = "obj"
    /\ cur.body.image_size.o["depth"].t = "int"
    /\ cur.args.prompt = "a cat"
    /\ cur.args.image_size = ArgDict({<<"width", 512>>, <<"height", 768>>})

\* C6: while one request is suspended in the provider call, a request that
\* has arrived can still be taken up by the service.
C6_OthersProgress ==
    (cur.pc = "calling" /\ pending # <<>>) =>
        ENABLED (Reject \/ NotConfigured \/ (\E u \in UUIDs : CallProvider(u)))

\* C7: every 200 response is {id: string, status: "success", url: string,
\* error_message: null}.
C7_SuccessShape ==
    (cur.pc = "done" /\ cur.response.code = 200) =>
        /\ cur.response.id \in UUIDs
        /\ cur.response.status = "success"
        /\ cur.response.url.t = "str"
        /\ cur.response.error_message = PyNone

\* C9: no provider call carries a width or height that is zero or negative.
C9_PositiveSize ==
    cur.calls = 1 => \A item \in cur.args.image_size.d : item[2] > 0

\* C10: the provider is called at most once per request, exactly once when
\* the credential is configured and never otherwise; after the call has
\* returned or raised the request has its one answer and only leaves.
C10_NoRetry ==
    /\ [](/\ cur.calls <= 1
          /\ HandlerEntered => cur.calls = (IF Configured THEN 1 ELSE 0)
          /\ cur.pc = "done" <=> cur.response # NoResponse
          /\ (cur.pc = "done" /\ cur.calls = 1) => cur.outcome.kind # "none")
    /\ [][/\ cur.pc = "calling" =>
                \/ cur' = cur
                \/ /\ cur'.pc = "done"
                   /\ cur'.calls = 1
                   /\ cur'.outcome.kind \in {"return", "raise"}
          /\ cur.pc = "done" => (cur' = cur \/ cur' = Idle)]_vars

C10_Witness ==
    /\ cur.pc = "done"
    /\ cur.outcome.kind = "raise"
    /\ cur.calls = 1
    /\ cur.response.code = 500
====
